---- MODULE Spec2Model ----
(***************************************************************************)
(* A model of osticket_agent.network.switch.SwitchOperation: the session   *)
(* to one RUCKUS ICX switch (connect / disconnect / scoped use), the       *)
(* command executor (execute_command / configure), the parsers of the      *)
(* show-command output (get_port_status / get_port_vlan / get_poe_status)  *)
(* and the verify-after-write operations (change_port_vlan /               *)
(* set_port_status / set_poe_status).                                      *)
(*                                                                         *)
(* Text is a sequence of one-character strings, so that the regular        *)
(* expressions of the parsers are computed on characters as re.search      *)
(* computes them.  The switch itself and the netmiko transport are the     *)
(* environment: the switch holds the state of one port and renders it in   *)
(* the layouts the comments of switch.py quote; the transport may refuse   *)
(* to open, fail on a command, and a session may die silently.             *)
(***************************************************************************)
EXTENDS Integers, Sequences, FiniteSets, TLC

\* ------------------------------------------------------------------ bounds
\* Sessions the transport opens in one run (further opens fail).
MaxSessions == 2
\* Lines of a text the parsers are given.
MaxLines == 2
\* Calls one caller makes in succession on a connected controller.
MaxCalls == 3
\* Polls of the agent's loop after its first.
MaxPolls == 1

\* --------------------------------------------------------------- constants
\* self._connection = None
NoConn == 0
\* The absent value (None) of an Optional[int].
Absent == -1
\* The VLAN a port falls back to when its untagged membership is removed.
DefaultVlan == 1

\* -------------------------------------------------------------------- text
Min(S) == CHOOSE x \in S : \A y \in S : x <= y

UpperCase ==
    << "A","B","C","D","E","F","G","H","I","J","K","L","M",
       "N","O","P","Q","R","S","T","U","V","W","X","Y","Z" >>

LowerCase ==
    << "a","b","c","d","e","f","g","h","i","j","k","l","m",
       "n","o","p","q","r","s","t","u","v","w","x","y","z" >>

DigitChars == << "0","1","2","3","4","5","6","7","8","9" >>

\* \s of the re module (the whitespace the model's texts use).
Space == { " ", "\n", "\t" }

\* \d
Digit == { DigitChars[k] : k \in 1..10 }

\* \w
Word == { UpperCase[k] : k \in 1..26 } \cup { LowerCase[k] : k \in 1..26 }
          \cup Digit \cup { "_" }

\* str.lower() on one character
LowerChar(c) ==
    IF \E k \in 1..26 : UpperCase[k] = c
    THEN LowerCase[CHOOSE k \in 1..26 : UpperCase[k] = c]
    ELSE c

\* str.lower()
Lower(t) == [k \in 1..Len(t) |-> LowerChar(t[k])]

\* The literal w stands in t at position i.
Lit(t, i, w) ==
    /\ i >= 1
    /\ i + Len(w) - 1 <= Len(t)
    /\ \A k \in 1..Len(w) : t[i + k - 1] = w[k]

\* The literal w stands in t at position i, under re.IGNORECASE.
LitI(t, i, w) == Lit(Lower(t), i, Lower(w))

\* "w in t" of Python
Contains(t, w) == \E i \in 1..Len(t) : Lit(t, i, w)

\* The end of the longest run of characters of class S that starts at j:
\* the first position >= j whose character is not in S (Len(t)+1 if none).
\* A greedy S+ at j matches t[j..RunEnd-1], and matches iff RunEnd > j.
RunEnd(t, j, S) ==
    Min({ k \in j..(Len(t) + 1) : k = Len(t) + 1 \/ t[k] \notin S })

DigitVal(c) == (CHOOSE k \in 1..10 : DigitChars[k] = c) - 1

\* int(s) for a string of decimal digits
RECURSIVE ToInt(_)
ToInt(ds) ==
    IF ds = << >> THEN 0
    ELSE 10 * ToInt(SubSeq(ds, 1, Len(ds) - 1)) + DigitVal(ds[Len(ds)])

\* str(n) for n >= 0, as f"{n}" renders it
RECURSIVE ToStr(_)
ToStr(n) ==
    IF n < 10 THEN << DigitChars[n + 1] >>
    ELSE ToStr(n \div 10) \o << DigitChars[(n % 10) + 1] >>

\* ----------------------------------------------------------------- parsers
\* PortStatus.ENABLE / PortStatus.DISABLE
Port_ENABLE == "enable"
Port_DISABLE == "disable"
\* PoEStatus.ENABLED / PoEStatus.DISABLED
PoE_ENABLED == "enabled"
PoE_DISABLED == "disabled"
\* The absent value (None) of an Optional[PortStatus] or Optional[PoEStatus].
None == "None"

\* rf"{port_pattern}\s+(\w+)" matches output from position i.
StatusMatchAt(output, i, port) ==
    /\ Lit(output, i, port)
    /\ LET j == i + Len(port)
           k == RunEnd(output, j, Space)
       IN  k > j /\ RunEnd(output, k, Word) > k

\* A get_port_status that takes a link that is down for a disabled port.
ParsePortStatusDownDisabled(output, port) ==
    LET starts == { i \in 1..Len(output) : StatusMatchAt(output, i, port) }
    IN  IF starts = {} THEN None
        ELSE LET i == Min(starts)
                 k == RunEnd(output, i + Len(port), Space)
                 status == Lower(SubSeq(output, k, RunEnd(output, k, Word) - 1))
             IN  IF status \in { << "d","i","s","a","b","l","e" >>, << "d","o","w","n" >> }
                 THEN Port_DISABLE ELSE Port_ENABLE

\* get_port_status, after the command: re.search takes the leftmost match.
ParsePortStatus(output, port) ==
    LET starts == { i \in 1..Len(output) : StatusMatchAt(output, i, port) }
    IN  IF starts = {} THEN None
        ELSE LET i == Min(starts)
                 k == RunEnd(output, i + Len(port), Space)
                 status == Lower(SubSeq(output, k, RunEnd(output, k, Word) - 1))
             IN  IF status = << "d","i","s","a","b","l","e" >>
                 THEN Port_DISABLE ELSE Port_ENABLE

UntaggedVlan == << "U","n","t","a","g","g","e","d"," ","V","L","A","N" >>
VLANs == << "V","L","A","N","s" >>

\* r"Untagged VLAN\s+:\s+(\d+)" with re.IGNORECASE matches from position i.
UntaggedMatchAt(output, i) ==
    /\ LitI(output, i, UntaggedVlan)
    /\ LET j == i + Len(UntaggedVlan)
           k == RunEnd(output, j, Space)
       IN  /\ k > j
           /\ k <= Len(output)
           /\ output[k] = ":"
           /\ LET m == RunEnd(output, k + 1, Space)
              IN  m > k + 1 /\ RunEnd(output, m, Digit) > m

\* The integer of group 1 of the leftmost "Untagged VLAN : N" match.
UntaggedGroup(output) ==
    LET i == Min({ x \in 1..Len(output) : UntaggedMatchAt(output, x) })
        k == RunEnd(output, i + Len(UntaggedVlan), Space)
        m == RunEnd(output, k + 1, Space)
    IN  ToInt(SubSeq(output, m, RunEnd(output, m, Digit) - 1))

\* r"VLANs\s+(\d+)" with re.IGNORECASE matches from position i.
VlansMatchAt(output, i) ==
    /\ LitI(output, i, VLANs)
    /\ LET j == i + Len(VLANs)
           k == RunEnd(output, j, Space)
       IN  k > j /\ RunEnd(output, k, Digit) > k

\* The integer of group 1 of the leftmost "VLANs N" match.
VlansGroup(output) ==
    LET i == Min({ x \in 1..Len(output) : VlansMatchAt(output, x) })
        k == RunEnd(output, i + Len(VLANs), Space)
    IN  ToInt(SubSeq(output, k, RunEnd(output, k, Digit) - 1))

\* A get_port_vlan that tries the "VLANs N" layout first.
ParsePortVlanVlansFirst(output) ==
    IF \E i \in 1..Len(output) : VlansMatchAt(output, i)
    THEN VlansGroup(output)
    ELSE IF \E i \in 1..Len(output) : UntaggedMatchAt(output, i)
         THEN UntaggedGroup(output)
         ELSE Absent

\* get_port_vlan, after the command.
ParsePortVlan(output) ==
    IF \E i \in 1..Len(output) : UntaggedMatchAt(output, i)
    THEN UntaggedGroup(output)
    ELSE IF \E i \in 1..Len(output) : VlansMatchAt(output, i)
         THEN VlansGroup(output)
         ELSE Absent

InvalidInput == << "I","n","v","a","l","i","d"," ","i","n","p","u","t" >>

NoInformation ==
    << "N","o"," ","i","n","f","o","r","m","a","t","i","o","n"," ",
       "a","v","a","i","l","a","b","l","e" >>

\* rf"\s+{port_pattern}\s+(On|Off)" matches with the port literal at m.
PoeMatchAt(output, m, port) ==
    /\ m >= 2
    /\ output[m - 1] \in Space
    /\ Lit(output, m, port)
    /\ LET j == m + Len(port)
           k == RunEnd(output, j, Space)
       IN  k > j /\ (Lit(output, k, << "O","n" >>) \/ Lit(output, k, << "O","f","f" >>))

\* A get_poe_status that looks for the row of the port before the markers.
ParsePoeStatusRowFirst(output, port) ==
    LET at == { m \in 1..Len(output) : PoeMatchAt(output, m, port) }
    IN  IF at # {}
        THEN LET m == Min(at)
                 k == RunEnd(output, m + Len(port), Space)
             IN  IF Lit(output, k, << "O","n" >>) THEN PoE_ENABLED ELSE PoE_DISABLED
        ELSE None

\* get_poe_status, after the command.
ParsePoeStatus(output, port) ==
    IF Contains(output, InvalidInput) \/ Contains(output, NoInformation)
    THEN None
    ELSE LET at == { m \in 1..Len(output) : PoeMatchAt(output, m, port) }
         IN  IF at = {} THEN None
             ELSE LET m == Min(at)
                      k == RunEnd(output, m + Len(port), Space)
                  IN  IF Lit(output, k, << "O","n" >>) THEN PoE_ENABLED ELSE PoE_DISABLED

\* ---------------------------------------------------------------- commands
\* A command line: its keyword, and the VLAN or port it is formatted with.
Cmd(k, v, p) == [k |-> k, v |-> v, p |-> p]

\* f"show int br e {port}"
ShowIntBr(port) == Cmd("show int br e", Absent, port)
\* f"show vlan br e {port}"
ShowVlanBr(port) == Cmd("show vlan br e", Absent, port)
\* f"show inline power {port}"
ShowInlinePower(port) == Cmd("show inline power", Absent, port)
\* "write memory"
WriteMemory == Cmd("write memory", Absent, << >>)

\* if current_vlan: (None and 0 are false)
Truthy(current_vlan) == current_vlan # Absent /\ current_vlan # 0

\* A change_port_vlan that adds the port to the new VLAN before it removes
\* it from the current one.
VlanCommandsAddFirst(port, current_vlan, vlan_id) ==
    << Cmd("vlan", vlan_id, << >>),
       Cmd("untagged ethernet", Absent, port),
       Cmd("exit", Absent, << >>) >>
    \o (IF Truthy(current_vlan)
        THEN << Cmd("vlan", current_vlan, << >>),
                Cmd("no untagged ethernet", Absent, port),
                Cmd("exit", Absent, << >>) >>
        ELSE << >>)

\* change_port_vlan: the batch built from the observed and the requested VLAN.
VlanCommands(port, current_vlan, vlan_id) ==
    (IF Truthy(current_vlan)
     THEN << Cmd("vlan", current_vlan, << >>),
             Cmd("no untagged ethernet", Absent, port),
             Cmd("exit", Absent, << >>) >>
     ELSE << >>)
    \o << Cmd("vlan", vlan_id, << >>),
          Cmd("untagged ethernet", Absent, port),
          Cmd("exit", Absent, << >>) >>

\* A set_port_status whose conditional expression has its arms swapped.
StatusCommandsInverted(port, status) ==
    << Cmd("interface ethernet", Absent, port),
       Cmd(IF status = Port_ENABLE THEN "disable" ELSE "enable", Absent, << >>),
       Cmd("exit", Absent, << >>) >>

\* set_port_status: the batch.
StatusCommands(port, status) ==
    << Cmd("interface ethernet", Absent, port),
       Cmd(IF status = Port_ENABLE THEN "enable" ELSE "disable", Absent, << >>),
       Cmd("exit", Absent, << >>) >>

\* set_poe_status: the batch.
PoeCommands(port, status) ==
    << Cmd("interface ethernet", Absent, port),
       Cmd(IF status = PoE_ENABLED THEN "inline power" ELSE "no inline power",
           Absent, << >>),
       Cmd("exit", Absent, << >>) >>

\* ------------------------------------------------------------------ device
\* Port identifiers, as the caller writes them.
P111 == << "1","/","1","/","1" >>

\* The port the modelled switch has.
DevPort == P111
\* The ports the caller names.
Ports == { P111 }
Vlans == { 100, 200 }

\* The Link column of "show int br": Up, Down or Disable.
LinkText(link) ==
    CASE link = "Up" -> << "U","p" >>
      [] link = "Down" -> << "D","o","w","n" >>
      [] link = "Disable" -> << "D","i","s","a","b","l","e" >>

\* Output of "show int br e <port>": the header and the row of the port, or
\* the rejection of the command.
IntBrOutput(d, port, layout) ==
    IF port = DevPort /\ layout = "table"
    THEN << "P","o","r","t"," ","L","i","n","k"," ","S","t","a","t","e","\n" >> \o port \o << " " >> \o LinkText(d.link)
         \o << " ","N","o","n","e","\n" >>
    ELSE InvalidInput

\* Output of "show vlan br e <port>", in either of the two layouts, or the
\* rejection of the command.
VlanBrOutput(d, port, layout) ==
    IF port = DevPort /\ layout # "rejected"
    THEN IF layout = "untagged"
         THEN << "U","n","t","a","g","g","e","d"," ","V","L","A","N"," ",":"," " >> \o ToStr(d.vlan) \o << "\n" >>
         ELSE << "V","L","A","N","s"," " >> \o ToStr(d.vlan) \o << "\n" >>
    ELSE InvalidInput

VlanLayouts == { "untagged", "vlans", "rejected" }
IntBrLayouts == { "table", "rejected" }
PoeLayouts == { "table", "rejected" }

\* Output of "show inline power <port>": the table, or the rejection of the
\* command on a port without PoE.
PoeOutput(d, port, layout) ==
    IF port = DevPort /\ d.poe # "None" /\ layout = "table"
    THEN << "P","o","r","t"," ","A","d","m","i","n"," ","O","p","e","r","\n" >> \o port \o << " " >>
         \o (IF d.poe = "On" THEN << "O","n" >> ELSE << "O","f","f" >>) \o << " ","O","f","f","\n" >>
    ELSE InvalidInput

\* Output of "write memory".
WriteMemoryOutput == << "F","l","a","s","h"," ","d","o","n","e" >>

\* What the switch prints for a configuration batch.
ConfigOutputs == { << "o","k" >>, InvalidInput }

\* ------------------------------------------------------------------- texts
\* The lines an output is made of: the rows and layouts the comments of the
\* parsers quote, the lines the tests feed them, and the rejections.
\* A port of another stack unit, whose identifier ends with that of P111.
P1111 == << "1","1","/","1","/","1" >>

\* "1/1/1 Up Forward ..." / "1/1/1 Disable None ..."
StatusRow(port, link) ==
    port \o << " " >> \o LinkText(link) \o << " ","N","o","n","e" >>

\* "Untagged VLAN : N"
UntaggedLine(n) == UntaggedVlan \o << " ",":"," " >> \o ToStr(n)

\* "VLANs N"
VlansLine(n) == VLANs \o << " " >> \o ToStr(n)

\* "Port 1/1/1 is a member of VLAN 100"
MemberLine(port, n) ==
    << "P","o","r","t"," " >> \o port
    \o << " ","i","s"," ","a"," ","m","e","m","b","e","r"," ","o","f"," ","V",
          "L","A","N"," " >> \o ToStr(n)

\* "Port Admin Oper ..."
PoeHeader ==
    << "P","o","r","t"," ","A","d","m","i","n"," ","O","p","e","r" >>

\* "1/1/1 On Off 0 0 n/a n/a 3 n/a"
PoeRow(port, admin) ==
    port \o << " " >>
    \o (IF admin = "On" THEN << "O","n" >> ELSE << "O","f","f" >>)
    \o << " ","O","f","f" >>

\* "State: On"
StateOn == << "S","t","a","t","e",":"," ","O","n" >>

Lines ==
    { PoeHeader, StateOn, InvalidInput, NoInformation,
      UntaggedLine(100), VlansLine(200), MemberLine(P111, 100),
      PoeRow(P111, "On"), PoeRow(P111, "Off"),
      StatusRow(P111, "Up"), StatusRow(P111, "Disable"),
      StatusRow(P1111, "Disable") }

P112 == << "1","/","1","/","2" >>

\* "Port 1/1/1" and under it "Untagged VLAN : N"
PortEntry(port, n) ==
    << "P","o","r","t"," " >> \o port \o << "\n" >> \o UntaggedLine(n)

\* The texts that carry the VLAN entries of two ports, each port in its
\* own VLAN.
PortTexts ==
    { PortEntry(e[1], e[3]) \o << "\n" >> \o PortEntry(e[2], e[4]) :
        e \in { x \in { P111, P112 } \X { P111, P112 } \X Vlans \X Vlans :
                  x[1] # x[2] /\ x[3] # x[4] } }

\* The texts of 1 to n lines.
RECURSIVE TextsOf(_)
TextsOf(n) ==
    IF n = 1 THEN Lines
    ELSE TextsOf(n - 1)
         \cup { t \o << "\n" >> \o l : t \in TextsOf(n - 1), l \in Lines }

\* The texts a switch may print: nothing, or up to MaxLines lines.
Texts == { << >> } \cup TextsOf(MaxLines)

Global == Cmd("global", Absent, << >>)

\* The switch applies a sequence of configuration lines to the port's state;
\* ctx is the configuration context the earlier lines established.
RECURSIVE ApplyCmds(_, _, _)
ApplyCmds(d, ctx, cmds) ==
    IF cmds = << >> THEN d
    ELSE LET c == Head(cmds)
             rest == Tail(cmds)
             mine == ctx.k = "interface ethernet" /\ ctx.p = DevPort
         IN  CASE c.k \in { "vlan", "interface ethernet" } ->
                    ApplyCmds(d, c, rest)
               [] c.k = "exit" ->
                    ApplyCmds(d, Global, rest)
               [] c.k = "no untagged ethernet" ->
                    ApplyCmds(
                      IF ctx.k = "vlan" /\ c.p = DevPort /\ d.vlan = ctx.v
                         /\ ctx.v # DefaultVlan
                      THEN [d EXCEPT !.vlan = DefaultVlan] ELSE d, ctx, rest)
               [] c.k = "untagged ethernet" ->
                    ApplyCmds(
                      IF ctx.k = "vlan" /\ c.p = DevPort
                         /\ d.vlan \in { DefaultVlan, ctx.v }
                      THEN [d EXCEPT !.vlan = ctx.v] ELSE d, ctx, rest)
               [] c.k = "enable" ->
                    ApplyCmds(
                      IF mine /\ d.link = "Disable"
                      THEN [d EXCEPT !.link = "Down"] ELSE d, ctx, rest)
               [] c.k = "disable" ->
                    ApplyCmds(
                      IF mine THEN [d EXCEPT !.link = "Disable"] ELSE d, ctx, rest)
               [] c.k = "inline power" ->
                    ApplyCmds(
                      IF mine /\ d.poe # "None"
                      THEN [d EXCEPT !.poe = "On"] ELSE d, ctx, rest)
               [] c.k = "no inline power" ->
                    ApplyCmds(
                      IF mine /\ d.poe # "None"
                      THEN [d EXCEPT !.poe = "Off"] ELSE d, ctx, rest)
               [] OTHER -> ApplyCmds(d, ctx, rest)

\* The states the switch may be in after it was sent a batch: it applied a
\* prefix of it (nothing, when it accepts a batch without reflecting it;
\* all of it, when the change takes effect).
AfterBatch(d, cmds) ==
    { ApplyCmds(d, Global, SubSeq(cmds, 1, n)) : n \in 0..Len(cmds) }

\* ------------------------------------------------------------------- state
VARIABLES
    conn,          \* self._connection: NoConn, or the session it refers to
    opened,        \* sessions ConnectHandler(...) has returned so far
    live,          \* the sessions whose is_alive() is true
    enabled,       \* the live sessions that are in enable mode
    closes,        \* per session, the calls of its disconnect()
    dev,           \* the switch: link, vlan and poe of its port
    pc,            \* where the caller stands in its current call
    call,          \* the current call and its arguments
    current_vlan,  \* change_port_vlan: the VLAN read first
    new_vlan,      \* change_port_vlan: the VLAN read back
    new_status,    \* set_port_status / set_poe_status: the status read back
    caught,        \* the exception the except clause of a mutation caught
    output,        \* get_port_*: the text of the switch the read parsed
    peer,          \* a second caller of the same controller: where it stands
    tool,          \* the tool call in progress and what it has read
    agent,         \* the poll loop of the agent and its ticket tracker
    pend,          \* the body's outcome while __exit__ runs
    ret,           \* the outcome of the call: a return value or an exception
    trace          \* the transport calls and waits of the current call

vars ==
    << conn, opened, live, enabled, closes, dev, pc, call,
       current_vlan, new_vlan, new_status, caught, output, peer, tool, agent,
       pend, ret, trace >>

sessionVars == << conn, opened, live, enabled, closes >>
localVars == << current_vlan, new_vlan, new_status, caught, output >>
\* What lies outside the call of the one caller.
outerVars == << peer, tool, agent >>

Sessions == 1..MaxSessions

\* One transport call or wait: on which session, with which command lines,
\* and whether that session was alive and in enable mode when it was made.
Ev(ev, s, cmds) ==
    [ev |-> ev, s |-> s, cmds |-> cmds,
     alive |-> s \in live, priv |-> s \in enabled]

\* Outcomes of a call.
NoDict ==
    [port |-> << >>, status |-> "", vlan |-> Absent, poe_status |-> ""]

NoOutcome ==
    [kind |-> "none", b |-> FALSE, n |-> Absent, s |-> None, out |-> << >>,
     d |-> NoDict, exc |-> "none"]
Returned == [NoOutcome EXCEPT !.kind = "return"]
RetBool(b) == [Returned EXCEPT !.b = b]
RetInt(n) == [Returned EXCEPT !.n = n]
RetStatus(st) == [Returned EXCEPT !.s = st]
RetText(t) == [Returned EXCEPT !.out = t]
RetDict(d) == [Returned EXCEPT !.d = d]
Raise(e) == [NoOutcome EXCEPT !.kind = "raise", !.exc = e]

Reads == { "get_port_status", "get_port_vlan", "get_poe_status" }
Mutations == { "change_port_vlan", "set_port_status", "set_poe_status" }

MkCall(name, port, vlan, status, cmds, scoped) ==
    [name |-> name, port |-> port, vlan |-> vlan, status |-> status,
     cmds |-> cmds, scoped |-> scoped]

NoCall == MkCall("none", << >>, Absent, None, << >>, FALSE)

\* The switches of the configuration, and the names a tool is called with.
Switches == { "switch1" }
SwitchNames == Switches \cup { "switch9" }

\* A call of a tool: its arguments as the agent gives them (the status is
\* text), and for the get_port_status tool the reads made and their values.
MkTool(name, switch_name, port, vlan_id, status) ==
    [name |-> name, switch_name |-> switch_name, port |-> port,
     vlan_id |-> vlan_id, status |-> status, step |-> 1, d |-> NoDict]

NoTool == MkTool("none", "", << >>, Absent, << >>)

\* A ticket of the ticketing system: its id and its subject.
MkTicket(id, subject) == [id |-> id, subject |-> subject]
NoTicket == MkTicket(0, << >>)

\* The ids of the tickets the ticketing system holds.
TicketIds == { 1, 2 }

\* The agent outside its poll loop, with an empty tracker: where run()
\* stands, the tracker's set and the set in its file, the list and the
\* ticket of the for loop, what process_ticket returned for that ticket,
\* and per ticket the runs of the decision agent and the replies sent.
NoAgent ==
    [pc |-> "off", polls |-> 0, processed |-> { }, stored |-> { },
     unprocessed_tickets |-> << >>, i |-> 0, ticket |-> NoTicket,
     success |-> "none", runs |-> [id \in TicketIds |-> 0],
     replies |-> [id \in TicketIds |-> 0]]

\* The calls a caller makes: the operations by themselves, and the reads
\* and mutations inside a "with switch:" block.
Calls ==
    { MkCall(n, << >>, Absent, None, << >>, FALSE) : n \in { "connect", "disconnect" } }
    \cup { MkCall("execute_command", << >>, Absent, None, << ShowIntBr(P111) >>, FALSE) }
    \cup { MkCall("configure", << >>, Absent, None,
                  << Cmd("interface ethernet", Absent, P111),
                     Cmd("enable", Absent, << >>) >>, FALSE) }
    \cup { MkCall(n, p, Absent, None, << >>, sc) :
             n \in Reads, p \in Ports, sc \in BOOLEAN }
    \cup { MkCall("change_port_vlan", p, v, None, << >>, sc) :
             p \in Ports, v \in Vlans, sc \in BOOLEAN }
    \cup { MkCall("set_port_status", p, Absent, st, << >>, sc) :
             p \in Ports, st \in { Port_ENABLE, Port_DISABLE }, sc \in BOOLEAN }
    \cup { MkCall("set_poe_status", p, Absent, st, << >>, sc) :
             p \in Ports, st \in { PoE_ENABLED, PoE_DISABLED }, sc \in BOOLEAN }

\* The first step of the body of a call.
Entry(name) ==
    CASE name = "connect" -> "connect"
      [] name = "disconnect" -> "disconnect"
      [] name = "execute_command" -> "execute"
      [] name = "configure" -> "configure"
      [] name \in Reads -> "read"
      [] name = "change_port_vlan" -> "m_read"
      [] name = "get_port_status_tool" -> "tool_read"
      [] OTHER -> "m_config"

Init ==
    /\ conn = NoConn
    /\ opened = 0
    /\ live = { }
    /\ enabled = { }
    /\ closes = [s \in Sessions |-> 0]
    /\ dev \in [link : { "Up", "Disable" }, vlan : { DefaultVlan, 100 },
                poe : { "On", "None" }, texts : { "layouts" }]
    /\ pc = "idle"
    /\ call = NoCall
    /\ current_vlan = Absent
    /\ new_vlan = Absent
    /\ new_status = None
    /\ caught = "none"
    /\ output = << >>
    /\ peer = "idle"
    /\ tool = NoTool
    /\ agent = NoAgent
    /\ pend = NoOutcome
    /\ ret = NoOutcome
    /\ trace = << >>

\* ------------------------------------------------------------ the caller
\* The caller makes call c: a scoped call enters the block through
\* __enter__, which is connect().
Start(c) ==
    /\ pc = "idle"
    /\ call' = c
    /\ pc' = IF c.scoped THEN "connect" ELSE Entry(c.name)
    /\ UNCHANGED << sessionVars, dev, outerVars, localVars, pend, ret, trace >>

\* The caller has the outcome and the frame of the call is gone.
Return ==
    /\ pc = "done"
    /\ pc' = "idle"
    /\ call' = NoCall
    /\ current_vlan' = Absent
    /\ new_vlan' = Absent
    /\ new_status' = None
    /\ caught' = "none"
    /\ output' = << >>
    /\ pend' = NoOutcome
    /\ ret' = NoOutcome
    /\ trace' = << >>
    /\ UNCHANGED << sessionVars, dev, outerVars >>

\* A body step ends with outcome o: inside a with block __exit__ runs next.
Finish(o) ==
    IF call.scoped
    THEN pc' = "exit" /\ pend' = o /\ UNCHANGED ret
    ELSE pc' = "done" /\ ret' = o /\ UNCHANGED pend

\* ----------------------------------------------------------- the session
\* connect() without the reuse check: every call opens a session.
ConnectAlwaysOpens == FALSE

\* connect() that takes a handle that is not None for a connection.
ConnectHandleOnly == conn # NoConn

\* connect(): "if self._connection is not None and self._connection.is_alive()"
ConnectGuard == conn # NoConn /\ conn \in live

\* connect() returned: __enter__ hands over to the body of the block.
AfterConnect ==
    IF call.scoped
    THEN pc' = Entry(call.name) /\ UNCHANGED << ret, pend >>
    ELSE pc' = "done" /\ ret' = Returned /\ UNCHANGED pend

\* A connect() that wraps the failure of the open in a ConnectionError.
OpenErrorsWrapped == { "ConnectionError" }

\* What ConnectHandler(**device) raises when it cannot open the session.
OpenErrors == { "NetmikoTimeoutException", "NetmikoAuthenticationException" }

\* What enable() raises when enable mode is not entered.
EnableErrors == { "NetmikoTimeoutException", "ValueError" }

\* connect(), up to and including ConnectHandler(**device).
Connect ==
    /\ pc = "connect"
    /\ IF ConnectGuard
       THEN /\ AfterConnect
            /\ UNCHANGED << conn, opened, live, trace >>
       ELSE \/ /\ opened < MaxSessions
               /\ opened' = opened + 1
               /\ conn' = opened + 1
               /\ live' = live \cup { opened + 1 }
               /\ trace' = Append(trace, [Ev("open", opened + 1, << >>)
                                            EXCEPT !.alive = TRUE])
               /\ pc' = "enable"
               /\ UNCHANGED << ret, pend >>
            \/ \E e \in OpenErrors :
                 /\ trace' = Append(trace, Ev("open", NoConn, << >>))
                 /\ pc' = "done"
                 /\ ret' = Raise(e)
                 /\ UNCHANGED << conn, opened, live, pend >>
    /\ UNCHANGED << enabled, closes, dev, call, outerVars, localVars >>

\* connect(): self._connection.enable().  An exception leaves connect(), and
\* __enter__ with it, so that neither the body nor __exit__ runs.
Enable ==
    /\ pc = "enable"
    /\ trace' = Append(trace, Ev("enable", conn, << >>))
    /\ \/ /\ conn \in live
          /\ enabled' = enabled \cup { conn }
          /\ AfterConnect
       \/ \E e \in EnableErrors :
            /\ pc' = "done"
            /\ ret' = Raise(e)
            /\ UNCHANGED << enabled, pend >>
    /\ UNCHANGED << conn, opened, live, closes, dev, call, outerVars, localVars >>

\* disconnect() without the is_alive() check.
DisconnectHandleOnly == conn # NoConn

\* disconnect(): "if self._connection is not None and self._connection.is_alive()"
DisconnectGuard == conn # NoConn /\ conn \in live

\* disconnect() that logs the disconnection and leaves the session open.
DoDisconnectLeavesOpen == UNCHANGED << conn, live, enabled, closes, trace >>

\* The body of disconnect(): the transport's disconnect() on a live session.
DoDisconnect ==
    IF DisconnectGuard
    THEN /\ live' = live \ { conn }
         /\ enabled' = enabled \ { conn }
         /\ closes' = [closes EXCEPT ![conn] = @ + 1]
         /\ trace' = Append(trace, Ev("close", conn, << >>))
         /\ UNCHANGED conn
    ELSE UNCHANGED << conn, live, enabled, closes, trace >>

\* disconnect() called by the caller.
Disconnect ==
    /\ pc = "disconnect"
    /\ DoDisconnect
    /\ pc' = "done"
    /\ ret' = Returned
    /\ UNCHANGED << opened, dev, call, outerVars, localVars, pend >>

\* __exit__ that disconnects only when the body raised nothing.
ExitSkipsOnError ==
    /\ pc = "exit"
    /\ IF pend.kind = "raise"
       THEN UNCHANGED << conn, live, enabled, closes, trace >>
       ELSE DoDisconnect
    /\ pc' = "done"
    /\ ret' = pend
    /\ pend' = NoOutcome
    /\ UNCHANGED << opened, dev, call, outerVars, localVars >>

\* __exit__: disconnect(), then None is returned, so that an exception of
\* the body goes on to the caller.
Exit ==
    /\ pc = "exit"
    /\ DoDisconnect
    /\ pc' = "done"
    /\ ret' = pend
    /\ pend' = NoOutcome
    /\ UNCHANGED << opened, dev, call, outerVars, localVars >>

\* A session dies silently (timeout, remote reset).
SessionDies ==
    /\ \E s \in live : live' = live \ { s } /\ enabled' = enabled \ { s }
    /\ UNCHANGED << conn, opened, closes, dev, pc, call, outerVars,
                    localVars, pend, ret, trace >>

\* ---------------------------------------------------------- the executor
\* execute_command that checks the handle and not is_alive().
ExecuteHandleOnly == conn # NoConn

\* execute_command: "if self._connection is None or not
\* self._connection.is_alive(): raise ConnectionError"; TRUE lets it pass.
ExecuteGuard == conn # NoConn /\ conn \in live

\* configure that checks the handle and not is_alive().
ConfigureHandleOnly == conn # NoConn

\* configure: the same check.
ConfigureGuard == conn # NoConn /\ conn \in live

\* What send_command / send_config_set raise when the transport fails.
TransportErrors == { "ReadTimeout" }

\* The result of one use of the executor: the exception raised ("none" when
\* it returns), the output returned, and whether the session died in it.
NotConnected == [exc |-> "ConnectionError", out |-> << >>, dies |-> FALSE]

SendResults(outs) ==
    { [exc |-> "none", out |-> o, dies |-> FALSE] : o \in outs }
    \cup { [exc |-> e, out |-> << >>, dies |-> d] :
             e \in TransportErrors, d \in BOOLEAN }

Results(outs) == { NotConnected } \cup SendResults(outs)

\* What the switch prints for a command: a switch of the documented layouts
\* renders the state of its port, any other switch prints any text.
DeviceOutputs(d, command) ==
    CASE d.texts = "any" /\ command.k # "write memory" -> Texts
      [] d.texts = "ports" /\ command.k = "show vlan br e" -> PortTexts
      [] command.k = "show int br e" ->
           { IntBrOutput(d, command.p, layout) : layout \in IntBrLayouts }
      [] command.k = "show vlan br e" ->
           { VlanBrOutput(d, command.p, layout) : layout \in VlanLayouts }
      [] command.k = "show inline power" ->
           { PoeOutput(d, command.p, layout) : layout \in PoeLayouts }
      [] OTHER -> { WriteMemoryOutput, InvalidInput }

\* execute_command(command) with result r.
ExecuteCommand(command, r) ==
    IF ~ExecuteGuard
    THEN r = NotConnected /\ UNCHANGED << live, enabled, trace >>
    ELSE /\ r \in SendResults(DeviceOutputs(dev, command))
         /\ trace' = Append(trace, Ev("send_command", conn, << command >>))
         /\ live' = IF r.dies THEN live \ { conn } ELSE live
         /\ enabled' = IF r.dies THEN enabled \ { conn } ELSE enabled

\* A configure that hands the lines to the transport last line first.
ConfigureReversed(commands, r) ==
    IF ~ConfigureGuard
    THEN r = NotConnected /\ UNCHANGED << live, enabled, trace, dev >>
    ELSE /\ r \in SendResults(ConfigOutputs)
         /\ trace' = Append(trace, Ev("send_config_set", conn,
                                      [k \in 1..Len(commands) |->
                                         commands[Len(commands) + 1 - k]]))
         /\ live' = IF r.dies THEN live \ { conn } ELSE live
         /\ enabled' = IF r.dies THEN enabled \ { conn } ELSE enabled
         /\ dev' \in AfterBatch(dev, commands)

\* configure(commands) with result r: the lines go to the transport as they
\* are given, and the switch applies what it applies of them.
Configure(commands, r) ==
    IF ~ConfigureGuard
    THEN r = NotConnected /\ UNCHANGED << live, enabled, trace, dev >>
    ELSE /\ r \in SendResults(ConfigOutputs)
         /\ trace' = Append(trace, Ev("send_config_set", conn, commands))
         /\ live' = IF r.dies THEN live \ { conn } ELSE live
         /\ enabled' = IF r.dies THEN enabled \ { conn } ELSE enabled
         /\ dev' \in AfterBatch(dev, commands)

ResultOf(r) == IF r.exc = "none" THEN RetText(r.out) ELSE Raise(r.exc)

\* execute_command called by the caller.
Execute ==
    /\ pc = "execute"
    /\ \E r \in Results(DeviceOutputs(dev, call.cmds[1])) :
         /\ ExecuteCommand(call.cmds[1], r)
         /\ Finish(ResultOf(r))
    /\ UNCHANGED << conn, opened, closes, dev, call, outerVars, localVars >>

\* configure called by the caller.
ConfigureCall ==
    /\ pc = "configure"
    /\ \E r \in Results(ConfigOutputs) :
         /\ Configure(call.cmds, r)
         /\ Finish(ResultOf(r))
    /\ UNCHANGED << conn, opened, closes, call, outerVars, localVars >>

\* ----------------------------------------------------------------- reads
\* The show command of a read, and of the mutation it verifies.
ReadCommand(name, port) ==
    CASE name \in { "get_port_status", "set_port_status" } -> ShowIntBr(port)
      [] name \in { "get_port_vlan", "change_port_vlan" } -> ShowVlanBr(port)
      [] OTHER -> ShowInlinePower(port)

\* A read that raises when its pattern finds nothing in the output.
ReadValueRaisesNotFound(name, text, port) ==
    CASE name = "get_port_status" ->
           IF ParsePortStatus(text, port) = None THEN Raise("AttributeError")
           ELSE RetStatus(ParsePortStatus(text, port))
      [] name = "get_port_vlan" ->
           IF ParsePortVlan(text) = Absent THEN Raise("AttributeError")
           ELSE RetInt(ParsePortVlan(text))
      [] OTHER ->
           IF ParsePoeStatus(text, port) = None THEN Raise("AttributeError")
           ELSE RetStatus(ParsePoeStatus(text, port))

\* What a read returns for the output of its command.
ReadValue(name, text, port) ==
    CASE name = "get_port_status" -> RetStatus(ParsePortStatus(text, port))
      [] name = "get_port_vlan" -> RetInt(ParsePortVlan(text))
      [] OTHER -> RetStatus(ParsePoeStatus(text, port))

\* get_port_status / get_port_vlan / get_poe_status: an exception of
\* execute_command goes on to the caller.
Read ==
    /\ pc = "read"
    /\ \E r \in Results(DeviceOutputs(dev, ReadCommand(call.name, call.port))) :
         /\ ExecuteCommand(ReadCommand(call.name, call.port), r)
         /\ output' = r.out
         /\ Finish(IF r.exc = "none"
                   THEN ReadValue(call.name, r.out, call.port)
                   ELSE Raise(r.exc))
    /\ UNCHANGED << conn, opened, closes, dev, call, outerVars,
                    current_vlan, new_vlan, new_status, caught >>

\* ------------------------------------------------------------- mutations
\* An except clause that catches ConnectionError alone.
CatchesConnectionError(e) == e = "ConnectionError"

\* "except Exception as e": the exceptions the clause catches.
Catches(e) == TRUE

\* An except clause that submits the batch again.
FailRetries(e) ==
    /\ caught' = e
    /\ pc' = "m_config"
    /\ UNCHANGED << ret, pend >>

\* An exception e inside the try block of a mutation.
Fail(e) ==
    IF Catches(e)
    THEN caught' = e /\ Finish(RetBool(FALSE))
    ELSE UNCHANGED caught /\ Finish(Raise(e))

\* The batch of a mutation.
Commands(c, cur) ==
    CASE c.name = "change_port_vlan" -> VlanCommands(c.port, cur, c.vlan)
      [] c.name = "set_port_status" -> StatusCommands(c.port, c.status)
      [] OTHER -> PoeCommands(c.port, c.status)

\* A mutation that reports success once its commands went through.
VerifiedUnchecked(c, nv, ns) == TRUE

\* "return new_vlan == vlan_id" / "return new_status == status"
Verified(c, nv, ns) ==
    IF c.name = "change_port_vlan" THEN nv = c.vlan ELSE ns = c.status

\* change_port_vlan: current_vlan = self.get_port_vlan(port)
MRead ==
    /\ pc = "m_read"
    /\ \E r \in Results(DeviceOutputs(dev, ShowVlanBr(call.port))) :
         /\ ExecuteCommand(ShowVlanBr(call.port), r)
         /\ output' = r.out
         /\ IF r.exc = "none"
            THEN /\ current_vlan' = ParsePortVlan(r.out)
                 /\ pc' = "m_config"
                 /\ UNCHANGED << caught, ret, pend >>
            ELSE Fail(r.exc) /\ UNCHANGED current_vlan
    /\ UNCHANGED << conn, opened, closes, dev, call, outerVars,
                    new_vlan, new_status >>

\* A mutation that gives up when the switch answers its batch with
\* "Invalid input".
AfterConfigReadsAnswer(c, text) ==
    IF Contains(text, InvalidInput) THEN "exit"
    ELSE IF c.name = "set_poe_status" THEN "m_sleep" ELSE "m_write"

\* The statement after self.configure(commands), whose value is dropped.
AfterConfig(c, text) ==
    IF c.name = "set_poe_status" THEN "m_sleep" ELSE "m_write"

\* self.configure(commands) with result r.
BatchReturned(r) ==
    /\ Configure(Commands(call, current_vlan), r)
    /\ IF r.exc = "none"
       THEN /\ pc' = AfterConfig(call, r.out)
            /\ UNCHANGED << caught, ret, pend >>
       ELSE Fail(r.exc)
    /\ UNCHANGED << conn, opened, closes, call, outerVars,
                    current_vlan, new_vlan, new_status, output >>

\* self.configure(commands)
MConfig ==
    /\ pc = "m_config"
    /\ \E r \in Results(ConfigOutputs) : BatchReturned(r)

\* A mutation that does not save the configuration.
MWriteSkipped ==
    /\ pc = "m_write"
    /\ pc' = "m_sleep"
    /\ UNCHANGED << sessionVars, dev, call, outerVars, localVars, pend, ret,
                    trace >>

\* self.execute_command("write memory") with result r; its value is
\* dropped.
PersistReturned(r) ==
    /\ ExecuteCommand(WriteMemory, r)
    /\ IF r.exc = "none"
       THEN pc' = "m_sleep" /\ UNCHANGED << caught, ret, pend >>
       ELSE Fail(r.exc)
    /\ UNCHANGED << conn, opened, closes, dev, call, outerVars,
                    current_vlan, new_vlan, new_status, output >>

\* self.execute_command("write memory")
MWrite ==
    /\ pc = "m_write"
    /\ \E r \in Results(DeviceOutputs(dev, WriteMemory)) : PersistReturned(r)

\* A mutation that reads back at once, without the settle wait.
MSleepSkipped ==
    /\ pc = "m_sleep"
    /\ pc' = "m_verify"
    /\ UNCHANGED << sessionVars, dev, call, outerVars, localVars, pend, ret,
                    trace >>

\* A settle wait that never ends.
MSleepForever ==
    /\ pc = "m_sleep"
    /\ pc' = "m_sleep"
    /\ UNCHANGED << sessionVars, dev, call, outerVars, localVars, pend, ret,
                    trace >>

\* time.sleep(3)
MSleep ==
    /\ pc = "m_sleep"
    /\ trace' = Append(trace, Ev("sleep", NoConn, << >>))
    /\ pc' = "m_verify"
    /\ UNCHANGED << sessionVars, dev, call, outerVars, localVars, pend, ret >>

\* The read-back and the comparison with the requested value.
MVerify ==
    /\ pc = "m_verify"
    /\ \E r \in Results(DeviceOutputs(dev, ReadCommand(call.name, call.port))) :
         /\ ExecuteCommand(ReadCommand(call.name, call.port), r)
         /\ output' = r.out
         /\ IF r.exc = "none"
            THEN LET v == ReadValue(IF call.name = "change_port_vlan"
                                    THEN "get_port_vlan"
                                    ELSE IF call.name = "set_port_status"
                                         THEN "get_port_status"
                                         ELSE "get_poe_status",
                                    r.out, call.port)
                 IN  /\ new_vlan' = v.n
                     /\ new_status' = v.s
                     /\ Finish(RetBool(Verified(call, v.n, v.s)))
                     /\ UNCHANGED caught
            ELSE Fail(r.exc) /\ UNCHANGED << new_vlan, new_status >>
    /\ UNCHANGED << conn, opened, closes, dev, call, outerVars,
                    current_vlan >>

\* ------------------------------------------------------------------ system
Next ==
    \/ \E c \in Calls : Start(c)
    \/ Connect
    \/ Enable
    \/ Disconnect
    \/ Exit
    \/ Execute
    \/ ConfigureCall
    \/ Read
    \/ MRead
    \/ MConfig
    \/ MWrite
    \/ MSleep
    \/ MVerify
    \/ Return
    \/ SessionDies

Spec == Init /\ [][Next]_vars

TypeOK ==
    /\ conn \in { NoConn } \cup Sessions
    /\ opened \in 0..MaxSessions
    /\ live \subseteq 1..opened
    /\ enabled \subseteq live
    /\ ret.kind \in { "none", "return", "raise" }

\* --------------------------------------------------------------- executor
\* The session and the executor called by themselves.
ExecCalls ==
    { c \in Calls :
        c.name \in { "connect", "disconnect", "execute_command", "configure" } }

ExecNext ==
    \/ \E c \in ExecCalls : Start(c)
    \/ Connect
    \/ Enable
    \/ Disconnect
    \/ Execute
    \/ ConfigureCall
    \/ Return
    \/ SessionDies

ExecSpec == Init /\ [][ExecNext]_vars

\* ------------------------------------------------------------- scheduling
\* The steps inside a call: each is one blocking call of the one thread,
\* to the transport under its timeout or to time.sleep, so that a call
\* that is at a step takes it.
Steps ==
    \/ Connect
    \/ Enable
    \/ Disconnect
    \/ Exit
    \/ Execute
    \/ ConfigureCall
    \/ Read
    \/ MRead
    \/ MConfig
    \/ MWrite
    \/ MSleep
    \/ MVerify

LiveSpec == Spec /\ WF_vars(Steps)

\* -------------------------------------------------------------- mutations
\* The mutations as the tools call them: each inside a "with switch:" block.
MutCalls == { c \in Calls : c.name \in Mutations /\ c.scoped }

MutNext ==
    \/ \E c \in MutCalls : Start(c)
    \/ Connect
    \/ Enable
    \/ MRead
    \/ MConfig
    \/ MWrite
    \/ MSleep
    \/ MVerify
    \/ Exit
    \/ Return
    \/ SessionDies

\* The mutating operations on the switch.
MutSpec == Init /\ [][MutNext]_vars

\* ------------------------------------------------------------ succession
\* One caller calls set_port_status(port, enable) and get_port_status(port)
\* in succession on a connected controller, against a switch that applies
\* the batches it accepts and shows its state in the documented table; the
\* trace is kept over the calls.
IdemCalls ==
    { MkCall("set_port_status", P111, Absent, Port_ENABLE, << >>, FALSE),
      MkCall("get_port_status", P111, Absent, None, << >>, FALSE) }

IdemInit ==
    /\ conn = 1
    /\ opened = 1
    /\ live = { 1 }
    /\ enabled = { 1 }
    /\ closes = [s \in Sessions |-> 0]
    /\ dev \in [link : { "Up", "Down", "Disable" }, vlan : { DefaultVlan },
                poe : { "On" }, texts : { "layouts" }]
    /\ pc = "idle"
    /\ call = NoCall
    /\ current_vlan = Absent
    /\ new_vlan = Absent
    /\ new_status = None
    /\ caught = "none"
    /\ output = << >>
    /\ peer = "idle"
    /\ tool = NoTool
    /\ agent = NoAgent
    /\ pend = NoOutcome
    /\ ret = NoOutcome
    /\ trace = << >>

\* The calls that have ended: each ends with its read of the port's row.
CallsMade ==
    Cardinality({ i \in 1..Len(trace) : trace[i].cmds = << ShowIntBr(P111) >> })

IdemStart(c) == CallsMade < MaxCalls /\ Start(c)

\* The switch accepts the batch and applies all of it.
FaithfulConfig ==
    /\ MConfig
    /\ caught' = "none"
    /\ live' = live
    /\ dev' = ApplyCmds(dev, Global, Commands(call, current_vlan))

\* The switch saves its configuration.
FaithfulWrite == MWrite /\ caught' = "none" /\ live' = live

\* The switch shows the row of the port to the read-back.
FaithfulVerify ==
    /\ MVerify
    /\ caught' = "none"
    /\ live' = live
    /\ output' = IntBrOutput(dev, call.port, "table")

\* The switch shows the row of the port to get_port_status.
FaithfulRead ==
    /\ Read
    /\ live' = live
    /\ output' = IntBrOutput(dev, call.port, "table")

\* The caller has the outcome and goes on to its next call.
IdemReturn ==
    /\ pc = "done"
    /\ pc' = "idle"
    /\ call' = NoCall
    /\ current_vlan' = Absent
    /\ new_vlan' = Absent
    /\ new_status' = None
    /\ caught' = "none"
    /\ output' = << >>
    /\ pend' = NoOutcome
    /\ ret' = NoOutcome
    /\ UNCHANGED << sessionVars, dev, outerVars, trace >>

IdemNext ==
    \/ \E c \in IdemCalls : IdemStart(c)
    \/ FaithfulConfig
    \/ FaithfulWrite
    \/ MSleep
    \/ FaithfulVerify
    \/ FaithfulRead
    \/ IdemReturn

IdemSpec == IdemInit /\ [][IdemNext]_vars

\* ------------------------------------------------------------ two callers
\* Two callers use one controller, each through the "with switch:" block of
\* a tool: the caller changes the VLAN of a port, the second caller reads
\* the port's status, VLAN and PoE status.  The controller holds one handle for both; nothing in it, or in the
\* tools, makes one caller wait for the other.  The trace stays the record
\* of the caller's own call.
ConcCalls == { MkCall("change_port_vlan", P111, 100, None, << >>, TRUE) }

\* The second caller enters its block.
PeerStart ==
    /\ peer = "idle"
    /\ peer' = "connect"
    /\ UNCHANGED << sessionVars, dev, pc, call, localVars, tool, agent, pend, ret, trace >>

\* __enter__ of the second caller: connect(), up to ConnectHandler.
PeerConnect ==
    /\ peer = "connect"
    /\ IF ConnectGuard
       THEN peer' = "read_status" /\ UNCHANGED << conn, opened, live >>
       ELSE \/ /\ opened < MaxSessions
               /\ opened' = opened + 1
               /\ conn' = opened + 1
               /\ live' = live \cup { opened + 1 }
               /\ peer' = "enable"
            \/ /\ peer' = "idle"
               /\ UNCHANGED << conn, opened, live >>
    /\ UNCHANGED << enabled, closes, dev, pc, call, localVars, tool, agent, pend, ret, trace >>

\* connect() of the second caller: self._connection.enable().
PeerEnable ==
    /\ peer = "enable"
    /\ \/ /\ conn \in live
          /\ enabled' = enabled \cup { conn }
          /\ peer' = "read_status"
       \/ /\ peer' = "idle"
          /\ UNCHANGED enabled
    /\ UNCHANGED << conn, opened, live, closes, dev, pc, call, localVars, tool, agent,
                    pend, ret, trace >>

\* The three reads in the block of the second caller, in their order.
PeerReads == { "read_status", "read_vlan", "read_poe" }

AfterPeerRead(p) ==
    CASE p = "read_status" -> "read_vlan"
      [] p = "read_vlan" -> "read_poe"
      [] OTHER -> "exit"

\* A read of the second caller: execute_command on the shared handle; an
\* exception leaves the block through __exit__.
PeerRead ==
    /\ peer \in PeerReads
    /\ IF ~ExecuteGuard
       THEN peer' = "exit" /\ UNCHANGED << live, enabled >>
       ELSE \/ /\ peer' = AfterPeerRead(peer)
               /\ UNCHANGED << live, enabled >>
            \/ \E dies \in BOOLEAN :
                 /\ peer' = "exit"
                 /\ live' = IF dies THEN live \ { conn } ELSE live
                 /\ enabled' = IF dies THEN enabled \ { conn } ELSE enabled
    /\ UNCHANGED << conn, opened, closes, dev, pc, call, localVars, tool, agent, pend,
                    ret, trace >>

\* __exit__ of the second caller: disconnect() on the shared handle.
PeerExit ==
    /\ peer = "exit"
    /\ IF DisconnectGuard
       THEN /\ live' = live \ { conn }
            /\ enabled' = enabled \ { conn }
            /\ closes' = [closes EXCEPT ![conn] = @ + 1]
       ELSE UNCHANGED << live, enabled, closes >>
    /\ peer' = "idle"
    /\ UNCHANGED << conn, opened, dev, pc, call, localVars, tool, agent, pend, ret, trace >>

ConcNext ==
    \/ \E c \in ConcCalls : Start(c)
    \/ Connect
    \/ Enable
    \/ MRead
    \/ MConfig
    \/ MWrite
    \/ MSleep
    \/ MVerify
    \/ Exit
    \/ Return
    \/ PeerStart
    \/ PeerConnect
    \/ PeerEnable
    \/ PeerRead
    \/ PeerExit

\* The port's link and power play no part in a VLAN change.
ConcInit == Init /\ dev.link = "Up" /\ dev.poe = "On"

ConcSpec == ConcInit /\ [][ConcNext]_vars

\* ------------------------------------------------------------------ tools
En == << "e","n","a","b","l","e" >>
Dis == << "d","i","s","a","b","l","e" >>
Up == << "u","p" >>
Down == << "d","o","w","n" >>

\* PortStatus(value): the member with that value; None stands for the
\* ValueError of a value that no member has.
PortStatusOf(value) ==
    CASE value = En -> Port_ENABLE
      [] value = Dis -> Port_DISABLE
      [] OTHER -> None

\* PoEStatus(value)
PoEStatusOf(value) ==
    CASE value = En \o << "d" >> -> PoE_ENABLED
      [] value = Dis \o << "d" >> -> PoE_DISABLED
      [] OTHER -> None

\* The status texts the tools are called with.
PortStatusTexts ==
    { Up, Down, En, << "D","i","s","a","b","l","e" >>, En \o << "d" >> }
PoEStatusTexts ==
    { En \o << "d" >>, << "D","I","S","A","B","L","E","D" >>, << "o","n" >> }

ToolCalls ==
    { MkTool("get_port_status", sw, p, Absent, << >>) :
        sw \in SwitchNames, p \in Ports }
    \cup { MkTool("change_port_vlan", sw, p, v, << >>) :
             sw \in SwitchNames, p \in Ports, v \in Vlans }
    \cup { MkTool("set_port_status", sw, p, Absent, st) :
             sw \in SwitchNames, p \in Ports, st \in PortStatusTexts }
    \cup { MkTool("set_poe_status", sw, p, Absent, st) :
             sw \in SwitchNames, p \in Ports, st \in PoEStatusTexts }

\* The agent calls a tool.
ToolStart(t) ==
    /\ pc = "idle"
    /\ tool = NoTool
    /\ tool' = t
    /\ pc' = "tool"
    /\ UNCHANGED << sessionVars, dev, call, peer, agent, localVars, pend, ret, trace >>

\* The status argument of a tool as a member of its enumeration.
StatusArg(t) ==
    CASE t.name = "set_port_status" -> PortStatusOf(Lower(t.status))
      [] t.name = "set_poe_status" -> PoEStatusOf(Lower(t.status))
      [] OTHER -> None

\* A tool that looks at its arguments inside the block, once the session
\* is there.
ToolRejectsNever(t) == FALSE

\* "if switch_name not in switches: raise ValueError", then for the two
\* status tools "except ValueError: raise ValueError(...)".
ToolRejects(t) ==
    \/ t.switch_name \notin Switches
    \/ t.name \in { "set_port_status", "set_poe_status" } /\ StatusArg(t) = None

\* The lines of a tool before its "with switch:" block.
ToolCheck ==
    /\ pc = "tool"
    /\ IF ToolRejects(tool)
       THEN /\ pc' = "done"
            /\ ret' = Raise("ValueError")
            /\ UNCHANGED call
       ELSE /\ pc' = "connect"
            /\ call' = MkCall(IF tool.name = "get_port_status"
                              THEN "get_port_status_tool" ELSE tool.name,
                              tool.port, tool.vlan_id, StatusArg(tool),
                              << >>, TRUE)
            /\ UNCHANGED ret
    /\ UNCHANGED << sessionVars, dev, outerVars, localVars, pend, trace >>

\* The three reads of the get_port_status tool, in their order.
ToolReads == << "get_port_status", "get_port_vlan", "get_poe_status" >>

\* "port_status.value if port_status else 'unknown'"
ValueOr(member, default) == IF member = None THEN default ELSE member

\* The dictionary of the get_port_status tool with the value of a read.
WithRead(d, name, v) ==
    CASE name = "get_port_status" -> [d EXCEPT !.status = ValueOr(v.s, "unknown")]
      [] name = "get_port_vlan" -> [d EXCEPT !.vlan = v.n]
      [] OTHER -> [d EXCEPT !.poe_status = ValueOr(v.s, "not supported")]

\* One read in the block of the get_port_status tool; the third is followed
\* by the return of the dictionary, and an exception leaves the block.
ToolRead ==
    /\ pc = "tool_read"
    /\ LET name == ToolReads[tool.step]
           command == ReadCommand(name, call.port)
       IN  \E r \in Results(DeviceOutputs(dev, command)) :
             /\ ExecuteCommand(command, r)
             /\ output' = r.out
             /\ IF r.exc # "none"
                THEN /\ pc' = "exit"
                     /\ pend' = Raise(r.exc)
                     /\ UNCHANGED tool
                ELSE LET d == WithRead([tool.d EXCEPT !.port = call.port],
                                       name, ReadValue(name, r.out, call.port))
                     IN  IF tool.step < Len(ToolReads)
                         THEN /\ tool' = [tool EXCEPT !.step = @ + 1, !.d = d]
                              /\ UNCHANGED << pc, pend >>
                         ELSE /\ tool' = [tool EXCEPT !.d = d]
                              /\ pc' = "exit"
                              /\ pend' = RetDict(d)
    /\ UNCHANGED << conn, opened, closes, dev, call, peer, agent, ret,
                    current_vlan, new_vlan, new_status, caught >>

\* The agent has the outcome of the tool.
ToolReturn ==
    /\ pc = "done"
    /\ pc' = "idle"
    /\ tool' = NoTool
    /\ call' = NoCall
    /\ current_vlan' = Absent
    /\ new_vlan' = Absent
    /\ new_status' = None
    /\ caught' = "none"
    /\ output' = << >>
    /\ pend' = NoOutcome
    /\ ret' = NoOutcome
    /\ trace' = << >>
    /\ UNCHANGED << sessionVars, dev, peer, agent >>

ToolNext ==
    \/ \E t \in ToolCalls : ToolStart(t)
    \/ ToolCheck
    \/ Connect
    \/ Enable
    \/ ToolRead
    \/ MRead
    \/ MConfig
    \/ MWrite
    \/ MSleep
    \/ MVerify
    \/ Exit
    \/ ToolReturn

ToolSpec == Init /\ [][ToolNext]_vars

\* ------------------------------------------------------------------ ports
\* A connected controller, and a switch whose answer to the VLAN query
\* carries the entries of two ports.
PortCalls ==
    { MkCall("get_port_vlan", p, Absent, None, << >>, FALSE) :
        p \in { P111, P112 } }
    \cup { MkCall("change_port_vlan", p, v, None, << >>, FALSE) :
             p \in { P111, P112 }, v \in Vlans }

PortInit ==
    /\ conn = 1
    /\ opened = 1
    /\ live = { 1 }
    /\ enabled = { 1 }
    /\ closes = [s \in Sessions |-> 0]
    /\ dev = [link |-> "Up", vlan |-> 100, poe |-> "On", texts |-> "ports"]
    /\ pc = "idle"
    /\ call = NoCall
    /\ current_vlan = Absent
    /\ new_vlan = Absent
    /\ new_status = None
    /\ caught = "none"
    /\ output = << >>
    /\ peer = "idle"
    /\ tool = NoTool
    /\ agent = NoAgent
    /\ pend = NoOutcome
    /\ ret = NoOutcome
    /\ trace = << >>

PortNext ==
    \/ \E c \in PortCalls : Start(c)
    \/ Read
    \/ MRead
    \/ MConfig
    \/ MWrite
    \/ MSleep
    \/ MVerify
    \/ Return

PortSpec == PortInit /\ [][PortNext]_vars

\* ------------------------------------------------------------------ agent
\* Everything but the agent.
controllerVars ==
    << sessionVars, dev, pc, call, localVars, peer, tool, pend, ret, trace >>

Ticket1 == MkTicket(1, << "T","e","s","t"," ","p","o","r","t" >>)
Ticket2 == MkTicket(2, << "V","L","A","N" >>)

\* What get_tickets() returns: the open tickets, in the order of the API.
TicketLists ==
    { << >>, << Ticket1 >>, << Ticket2 >>, << Ticket1, Ticket2 >>,
      << Ticket2, Ticket1 >> }

\* What the decision agent answers to the analysis prompt.
AnalysisTexts ==
    { << "I","n"," ","s","c","o","p","e" >>,
      << "N","o","t"," ","w","i","t","h","i","n"," ","s","c","o","p","e" >>,
      << "O","u","t"," ","o","f"," ","S","c","o","p","e" >> }

\* An is_processed that knows no ticket.
IsProcessedNever(a, id) == FALSE

\* TicketTracker.is_processed
IsProcessed(a, id) == id \in a.processed

\* TicketTracker.filter_unprocessed_tickets
FilterUnprocessed(a, tickets) ==
    SelectSeq(tickets, LAMBDA t : ~IsProcessed(a, t.id))

\* "test" in t.subject.lower()
IsTest(t) == Contains(Lower(t.subject), << "t","e","s","t" >>)

\* The list run() goes through: the unprocessed tickets, then the test
\* tickets that are not among them.
UnprocessedTickets(a, tickets) ==
    LET unprocessed == FilterUnprocessed(a, tickets)
        among == { unprocessed[k] : k \in 1..Len(unprocessed) }
    IN  unprocessed \o SelectSeq(tickets, LAMBDA t : IsTest(t) /\ t \notin among)

\* '"not within" in analysis_response.lower() or "out of scope" in ...'
OutOfScope(text) ==
    \/ Contains(Lower(text), << "n","o","t"," ","w","i","t","h","i","n" >>)
    \/ Contains(Lower(text), << "o","u","t"," ","o","f"," ","s","c","o","p","e" >>)

\* TicketTracker.mark_processed: the id joins the set, and save() writes
\* the set to the file or fails and is logged.
MarkProcessed(a, id) ==
    { [a EXCEPT !.processed = @ \cup { id }, !.stored = st] :
        st \in { a.processed \cup { id }, a.stored } }

\* process_ticket returns b ("True" or "False") to the for loop of run().
TicketReturned(a, b) ==
    [a EXCEPT !.success = b, !.i = @ + 1, !.pc = "for"]

\* run() is called, with the tracker as its file gave it.
AgentInit ==
    /\ conn = NoConn
    /\ opened = 0
    /\ live = { }
    /\ enabled = { }
    /\ closes = [s \in Sessions |-> 0]
    /\ dev = [link |-> "Up", vlan |-> DefaultVlan, poe |-> "On",
              texts |-> "layouts"]
    /\ pc = "idle"
    /\ call = NoCall
    /\ current_vlan = Absent
    /\ new_vlan = Absent
    /\ new_status = None
    /\ caught = "none"
    /\ output = << >>
    /\ peer = "idle"
    /\ tool = NoTool
    /\ \E loaded \in SUBSET TicketIds :
         agent = [NoAgent EXCEPT !.pc = "fetch", !.processed = loaded,
                                 !.stored = loaded]
    /\ pend = NoOutcome
    /\ ret = NoOutcome
    /\ trace = << >>

\* run(): get_tickets(), the filter and the test tickets; an exception is
\* logged by the except clause of the loop.
Fetch ==
    /\ agent.pc = "fetch"
    /\ \/ \E tickets \in TicketLists :
            agent' = [agent EXCEPT
                        !.unprocessed_tickets = UnprocessedTickets(agent, tickets),
                        !.i = 1, !.ticket = NoTicket, !.success = "none",
                        !.pc = "for"]
       \/ agent' = [agent EXCEPT !.pc = "sleep"]
    /\ UNCHANGED controllerVars

\* run(): "for ticket in unprocessed_tickets"
For ==
    /\ agent.pc = "for"
    /\ agent' = IF agent.i > Len(agent.unprocessed_tickets)
                THEN [agent EXCEPT !.pc = "sleep"]
                ELSE [agent EXCEPT !.ticket = agent.unprocessed_tickets[agent.i],
                                   !.success = "none", !.pc = "check"]
    /\ UNCHANGED controllerVars

\* process_ticket: "if self.ticket_tracker.is_processed(ticket.id): return True"
Check ==
    /\ agent.pc = "check"
    /\ agent' = IF IsProcessed(agent, agent.ticket.id)
                THEN TicketReturned(agent, "True")
                ELSE [agent EXCEPT !.pc = "create"]
    /\ UNCHANGED controllerVars

\* process_ticket: agent = self._create_agent(), before the try block: an
\* exception leaves process_ticket and the for loop of run().
Create ==
    /\ agent.pc = "create"
    /\ \/ agent' = [agent EXCEPT !.pc = "analyse"]
       \/ agent' = [agent EXCEPT !.pc = "sleep"]
    /\ UNCHANGED controllerVars

\* process_ticket: agent.run(analysis_prompt); an answer that is out of
\* scope marks the ticket; an exception returns False.
Analyse ==
    /\ agent.pc = "analyse"
    /\ LET ran == [agent EXCEPT !.runs[agent.ticket.id] = @ + 1]
       IN  \/ \E text \in AnalysisTexts :
                IF OutOfScope(text)
                THEN \E m \in MarkProcessed(ran, agent.ticket.id) :
                       agent' = [m EXCEPT !.pc = "reply"]
                ELSE agent' = [ran EXCEPT !.pc = "process"]
           \/ agent' = TicketReturned(ran, "False")
    /\ UNCHANGED controllerVars

\* process_ticket: reply_to_ticket(...) for a ticket out of scope, whose
\* value is only logged; an exception returns False.
Reply ==
    /\ agent.pc = "reply"
    /\ \/ agent' = TicketReturned(
                      [agent EXCEPT !.replies[agent.ticket.id] = @ + 1], "True")
       \/ agent' = TicketReturned(agent, "False")
    /\ UNCHANGED controllerVars

\* process_ticket: agent.run(process_prompt), then mark_processed and
\* return True; an exception returns False.
Process ==
    /\ agent.pc = "process"
    /\ LET ran == [agent EXCEPT !.runs[agent.ticket.id] = @ + 1]
       IN  \/ \E m \in MarkProcessed(ran, agent.ticket.id) :
                agent' = TicketReturned(m, "True")
           \/ agent' = TicketReturned(ran, "False")
    /\ UNCHANGED controllerVars

\* run(): time.sleep(poll_interval), then the next poll.
Sleep ==
    /\ agent.pc = "sleep"
    /\ agent.polls < MaxPolls
    /\ agent' = [agent EXCEPT !.polls = @ + 1, !.pc = "fetch"]
    /\ UNCHANGED controllerVars

\* run(): KeyboardInterrupt, which no "except Exception" catches.
Interrupt ==
    /\ agent.pc \notin { "off", "stopped" }
    /\ agent' = [agent EXCEPT !.pc = "stopped"]
    /\ UNCHANGED controllerVars

AgentNext ==
    \/ Fetch
    \/ For
    \/ Check
    \/ Create
    \/ Analyse
    \/ Reply
    \/ Process
    \/ Sleep
    \/ Interrupt

AgentSpec == AgentInit /\ [][AgentNext]_vars

\* ---------------------------------------------------------------- parsing
\* The reads, and the mutation whose read-back has the pattern of its own.
ParseCalls ==
    { MkCall(n, P111, Absent, None, << >>, FALSE) : n \in Reads }
    \cup { MkCall("set_poe_status", P111, Absent, st, << >>, FALSE) :
             st \in { PoE_ENABLED, PoE_DISABLED } }

\* A connected controller, and a switch that prints any text.
ParseInit ==
    /\ conn = 1
    /\ opened = 1
    /\ live = { 1 }
    /\ enabled = { 1 }
    /\ closes = [s \in Sessions |-> 0]
    /\ dev = [link |-> "Up", vlan |-> DefaultVlan, poe |-> "On", texts |-> "any"]
    /\ pc = "idle"
    /\ call = NoCall
    /\ current_vlan = Absent
    /\ new_vlan = Absent
    /\ new_status = None
    /\ caught = "none"
    /\ output = << >>
    /\ peer = "idle"
    /\ tool = NoTool
    /\ agent = NoAgent
    /\ pend = NoOutcome
    /\ ret = NoOutcome
    /\ trace = << >>

ParseNext ==
    \/ \E c \in ParseCalls : Start(c)
    \/ Read
    \/ MConfig
    \/ MSleep
    \/ MVerify
    \/ Return

\* The parsers on the texts of a switch.
ParseSpec == ParseInit /\ [][ParseNext]_vars

\* ------------------------------------------------------------------ claims
\* The outcome of the body of the current call, once the body has ended.
BodyEnded == pc = "exit" \/ (pc = "done" /\ ~call.scoped)
BodyOutcome == IF pc = "exit" THEN pend ELSE ret

\* The events of the trace that are commands sent to the switch.
Sends == { i \in 1..Len(trace) : trace[i].ev \in { "send_command", "send_config_set" } }

\* The read-back of a mutation took place: the last command sent is the show
\* command of the mutation, after the batch and the settle wait.
ReadBackDone ==
    \E i \in Sends :
      /\ \A j \in Sends : j <= i
      /\ trace[i].cmds = << ReadCommand(call.name, call.port) >>
      /\ \E w \in 1..(i - 1) : trace[w].ev = "sleep"

\* The value the read-back parsed equals the requested value.
ReadBackEqual ==
    IF call.name = "change_port_vlan"
    THEN new_vlan = call.vlan
    ELSE new_status = call.status

\* C1: a mutation returns true only if the state parsed from the read-back
\* issued after the change equals the requested value; a read-back that
\* yields another value or the absent value makes it return false, also
\* when the switch accepted the batch.
C1_VerifiedOnlyIfReadBackEqual ==
    (BodyEnded /\ call.name \in Mutations /\ BodyOutcome.kind = "return")
      => /\ BodyOutcome.b => (ReadBackDone /\ ReadBackEqual)
         /\ ~ReadBackEqual => ~BodyOutcome.b

\* C1 witness: the batch and the persist command went through, the read-back
\* yielded the absent value, and set_port_status returned false.
C1_Witness ==
    /\ pc = "done"
    /\ call.name = "set_port_status"
    /\ caught = "none"
    /\ ReadBackDone
    /\ new_status = None
    /\ ret = RetBool(FALSE)

\* C2: a mutation never raises to its caller: once its body has ended the
\* outcome is a returned boolean, and it is false when an exception was
\* raised at any step of the call.
C2_MutationNeverRaises ==
    (BodyEnded /\ call.name \in Mutations)
      => /\ BodyOutcome.kind = "return"
         /\ caught # "none" => BodyOutcome = RetBool(FALSE)

\* C2 witness: change_port_vlan called with no live session returned false
\* for the ConnectionError of its first read.
C2_Witness ==
    /\ pc = "done"
    /\ call.name = "change_port_vlan"
    /\ ~call.scoped
    /\ caught = "ConnectionError"
    /\ trace = << >>
    /\ ret = RetBool(FALSE)

\* C3 as claimed: a public operation invoked while the session is absent or
\* dead establishes a session before its first command, so that no call of
\* a read or a mutation ends without a transport call.
C3_Original ==
    (pc = "done" /\ call.name \in (Reads \cup Mutations) /\ ~call.scoped)
      => trace # << >>

\* C3 as amended: a read or a mutation whose first command finds no live
\* session opens nothing and sends nothing; the read raises ConnectionError
\* and the mutation returns false.
C3_NoImplicitConnect ==
    [][ (pc = Entry(call.name) /\ call.name \in (Reads \cup Mutations)
         /\ ~(conn # NoConn /\ conn \in live) /\ pc' # pc)
        => /\ UNCHANGED << conn, opened, live, enabled, closes, dev, trace >>
           /\ IF call.name \in Reads
              THEN (IF call.scoped THEN pend' ELSE ret') = Raise("ConnectionError")
              ELSE /\ (IF call.scoped THEN pend' ELSE ret') = RetBool(FALSE)
                   /\ caught' = "ConnectionError" ]_vars

\* C3 witness: get_port_vlan on a controller that never connected raised
\* ConnectionError and no session was opened.
C3_Witness ==
    /\ pc = "done"
    /\ call.name = "get_port_vlan"
    /\ ~call.scoped
    /\ opened = 0
    /\ trace = << >>
    /\ ret = Raise("ConnectionError")

\* C4: connect() called while a live session exists opens nothing and keeps
\* the handle; a connect() that opens a session keeps the handle the open
\* returned.
C4_SessionReuse ==
    [][ (pc = "connect" /\ pc' # pc)
        => IF conn # NoConn /\ conn \in live
           THEN UNCHANGED << conn, opened, live, enabled, closes, trace >>
           ELSE pc' = "enable"
                  => (conn' = opened' /\ opened' = opened + 1
                      /\ trace' = Append(trace, trace'[Len(trace')])
                      /\ trace'[Len(trace')].ev = "open"
                      /\ trace'[Len(trace')].s = conn') ]_vars

\* C4 witness: connect() returned without a transport call while the
\* session an earlier connect() opened is alive, and it is still the handle.
C4_Witness ==
    /\ pc = "done"
    /\ call.name = "connect"
    /\ ret = Returned
    /\ trace = << >>
    /\ opened = 1
    /\ conn = 1
    /\ conn \in live

\* C5: at most one session opened by the controller is alive.
C5_AtMostOneLiveSession == Cardinality(live) <= 1

\* C5 witness: the first session died and connect() opened a second one,
\* which is the only live one.
C5_Witness == opened = 2 /\ closes[1] = 0 /\ live = { 2 } /\ conn = 2

\* C6: disconnect() is a no-op when no live session exists, and the
\* transport's disconnect() of a session is called at most once: by the
\* first disconnect() that finds it alive.
C6_DisconnectIdempotent ==
    /\ [](\A s \in Sessions : closes[s] <= 1)
    /\ [][ (pc \in { "disconnect", "exit" } /\ pc' # pc)
           => IF conn # NoConn /\ conn \in live
              THEN closes' = [closes EXCEPT ![conn] = 1]
              ELSE UNCHANGED << conn, opened, live, enabled, closes, dev, trace >> ]_vars

\* C6 witness: a later disconnect() on the session an earlier one closed
\* returned without a transport call.
C6_Witness ==
    /\ pc = "done"
    /\ call.name = "disconnect"
    /\ conn # NoConn
    /\ closes[conn] = 1
    /\ trace = << >>
    /\ ret = Returned

\* C7 as claimed: after disconnect() on a live session the handle is absent
\* again, as at construction.
C7_Original ==
    (pc = "done" /\ call.name = "disconnect" /\ trace # << >>) => conn = NoConn

\* C7 as amended: disconnect() on a live session closes that session and
\* leaves no session alive; the handle still refers to the closed session.
C7_DisconnectClosesKeepsHandle ==
    [][ (pc = "disconnect" /\ conn # NoConn /\ conn \in live /\ pc' # pc)
        => /\ conn' = conn
           /\ conn \notin live'
           /\ live' = { }
           /\ closes'[conn] = closes[conn] + 1
           /\ trace' = << [ev |-> "close", s |-> conn, cmds |-> << >>,
                           alive |-> TRUE, priv |-> conn \in enabled] >> ]_vars

\* C7 witness: disconnect() has closed the live session of the handle.
C7_Witness ==
    /\ pc = "done"
    /\ call.name = "disconnect"
    /\ Len(trace) = 1
    /\ trace[1].ev = "close"
    /\ conn = trace[1].s
    /\ conn \notin live

\* C8: a connect() that finds no live session, also after a disconnect(),
\* attempts an open, and when the open succeeds the handle is a new live
\* session; a command issued while the handle's session is alive is sent
\* over it and does not fail with ConnectionError.
C8_ReconnectAfterTeardown ==
    /\ [][ (pc = "connect" /\ ~(conn # NoConn /\ conn \in live) /\ pc' # pc)
           => \/ /\ pc' = "enable"
                 /\ opened' = opened + 1
                 /\ conn' = opened'
                 /\ conn' # conn
                 /\ conn' \in live'
              \/ /\ pc' = "done"
                 /\ ret'.kind = "raise"
                 /\ ret'.exc \in OpenErrors
                 /\ UNCHANGED << conn, opened, live >> ]_vars
    /\ [][ (pc \in { "execute", "read" } /\ conn # NoConn /\ conn \in live
            /\ pc' # pc)
           => /\ (IF call.scoped THEN pend' ELSE ret') # Raise("ConnectionError")
              /\ Len(trace') = Len(trace) + 1
              /\ trace'[Len(trace')].s = conn ]_vars

\* C8 witness: after connect() and disconnect() a second session was opened
\* and execute_command returned the output of the switch over it.
C8_Witness ==
    /\ pc = "done"
    /\ call.name = "execute_command"
    /\ opened = 2
    /\ closes[1] = 1
    /\ conn = 2
    /\ ret.kind = "return"
    /\ Len(trace) = 1
    /\ trace[1].s = 2

\* C9: when a with block is left, the session of the block is closed,
\* whether the body returned or raised, and the outcome of the body, an
\* exception included, is the outcome the caller gets.
C9_ScopedRelease ==
    [][ (pc = "exit" /\ pc' # pc)
        => /\ pc' = "done"
           /\ live' = { }
           /\ ret' = pend
           /\ (conn # NoConn /\ conn \in live)
                => closes'[conn] = closes[conn] + 1 ]_vars

\* C9 witness: the body of a with block raised while the session was alive;
\* __exit__ closed the session and the caller got the exception.
C9_Witness ==
    /\ pc = "done"
    /\ call.scoped
    /\ ret = Raise("ReadTimeout")
    /\ trace # << >>
    /\ trace[Len(trace)].ev = "close"
    /\ live = { }

\* C10: execute_command and configure raise ConnectionError whenever no
\* live session exists at the call, and then nothing is sent to the switch.
C10_NotConnected ==
    [][ (pc \in { "execute", "configure" }
         /\ ~(conn # NoConn /\ conn \in live) /\ pc' # pc)
        => /\ ret' = Raise("ConnectionError")
           /\ pc' = "done"
           /\ UNCHANGED << conn, opened, live, enabled, closes, dev, trace >> ]_vars

\* C10 witness: configure on a handle whose session is dead raised
\* ConnectionError and sent nothing.
C10_Witness ==
    /\ pc = "done"
    /\ call.name = "configure"
    /\ conn # NoConn
    /\ conn \notin live
    /\ trace = << >>
    /\ ret = Raise("ConnectionError")

\* The open attempts of the current call.
Opens == { i \in 1..Len(trace) : trace[i].ev = "open" }

\* C11: connect() attempts the transport open at most once per call, and a
\* failed open ends the call with the NetmikoTimeoutException or the
\* NetmikoAuthenticationException of the transport raised to the caller,
\* with no session opened and no second attempt.
C11_ConnectFailsOnce ==
    /\ [](Cardinality(Opens) <= 1)
    /\ [][ (pc = "connect" /\ pc' # pc /\ Len(trace') = Len(trace) + 1
            /\ trace'[Len(trace')].ev = "open" /\ trace'[Len(trace')].s = NoConn)
           => /\ pc' = "done"
              /\ ret' \in { Raise("NetmikoTimeoutException"),
                            Raise("NetmikoAuthenticationException") }
              /\ UNCHANGED << conn, opened, live, enabled, closes, dev >> ]_vars

\* C11 witness: connect() ended with the authentication failure of its one
\* open attempt, and no session exists.
C11_Witness ==
    /\ pc = "done"
    /\ call.name = "connect"
    /\ ret = Raise("NetmikoAuthenticationException")
    /\ Len(trace) = 1
    /\ trace[1].ev = "open"
    /\ opened = 0
    /\ conn = NoConn

\* The text holds nothing a read of the port could find: the port is not
\* named in it and no VLAN is.
NotFound(name, text, port) ==
    IF name = "get_port_vlan"
    THEN ~Contains(Lower(text), << "v","l","a","n" >>)
    ELSE ~Contains(text, port)

\* The absent value of a read.
AbsentValue(name) ==
    IF name = "get_port_vlan" THEN RetInt(Absent) ELSE RetStatus(None)

\* C12: a read raises only when no live session exists (ConnectionError,
\* nothing sent) or when the command sent over the live session fails (the
\* transport's exception); when the command returned a text in which the
\* port or a VLAN is not found, the read returns the absent value.
C12_ReadsRaiseOnlyOnFailure ==
    [][ (pc = "read" /\ pc' # pc)
        => LET o == IF call.scoped THEN pend' ELSE ret'
               connected == conn # NoConn /\ conn \in live
           IN  /\ o.kind \in { "return", "raise" }
               /\ o.kind = "raise"
                    => IF connected
                       THEN /\ o.exc = "ReadTimeout"
                            /\ Len(trace') = Len(trace) + 1
                            /\ trace'[Len(trace')].ev = "send_command"
                       ELSE o.exc = "ConnectionError" /\ trace' = trace
               /\ o.kind = "return"
                    => /\ connected
                       /\ NotFound(call.name, output', call.port)
                            => o = AbsentValue(call.name) ]_vars

\* C12 witness: get_port_status returned the absent value, not an exception,
\* for an output that has no row of the port.
C12_Witness ==
    /\ pc = "done"
    /\ call.name = "get_port_status"
    /\ ret = RetStatus(None)
    /\ output # << >>
    /\ NotFound(call.name, output, call.port)

\* The configuration batches, and the VLAN queries, of the current call.
Batches == { i \in 1..Len(trace) : trace[i].ev = "send_config_set" }
VlanQueries ==
    { i \in 1..Len(trace) :
        trace[i].ev = "send_command" /\ trace[i].cmds = << ShowVlanBr(call.port) >> }

\* The removal sequence for VLAN c and the add-untagged sequence for VLAN v.
Removal(c, port) ==
    << [k |-> "vlan", v |-> c, p |-> << >>],
       [k |-> "no untagged ethernet", v |-> Absent, p |-> port],
       [k |-> "exit", v |-> Absent, p |-> << >>] >>
AddUntagged(v, port) ==
    << [k |-> "vlan", v |-> v, p |-> << >>],
       [k |-> "untagged ethernet", v |-> Absent, p |-> port],
       [k |-> "exit", v |-> Absent, p |-> << >>] >>

C20_OneBatchOneQuery ==
    (pc = "done" /\ call.name = "change_port_vlan" /\ ret = RetBool(TRUE))
      => /\ Cardinality(Batches) = 1
         /\ \A i \in Batches : trace[i].cmds = AddUntagged(call.vlan, call.port)
         /\ Cardinality(VlanQueries) = 1

\* ---------------------------------------------------- claims on mutations
\* The reads of the state a mutation of the port's status or PoE verifies.
StateReads ==
    { i \in 1..Len(trace) :
        /\ trace[i].ev = "send_command"
        /\ trace[i].cmds =
             << [k |-> IF call.name = "set_port_status"
                       THEN "show int br e" ELSE "show inline power",
                 v |-> Absent, p |-> call.port] >> }

\* The configuration command that matches the requested target.
TargetCommand ==
    CASE call.status = Port_ENABLE -> "enable"
      [] call.status = Port_DISABLE -> "disable"
      [] call.status = PoE_ENABLED -> "inline power"
      [] call.status = PoE_DISABLED -> "no inline power"

\* C21: set_port_status and set_poe_status submit at most one batch and
\* issue at most one read of the state; a batch is ['interface ethernet
\* <port>', <the command that matches the target>, 'exit']; and a call that
\* ran through without an exception has submitted exactly one batch and
\* issued exactly one read.
C21_OneBatchOneRead ==
    call.name \in { "set_port_status", "set_poe_status" }
      => /\ Cardinality(Batches) <= 1
         /\ Cardinality(StateReads) <= 1
         /\ \A i \in Batches :
              trace[i].cmds =
                << [k |-> "interface ethernet", v |-> Absent, p |-> call.port],
                   [k |-> TargetCommand, v |-> Absent, p |-> << >>],
                   [k |-> "exit", v |-> Absent, p |-> << >>] >>
         /\ (BodyEnded /\ caught = "none")
              => Cardinality(Batches) = 1 /\ Cardinality(StateReads) = 1

\* C21 witness: set_port_status(port, disable) returned true after its one
\* batch with the command 'disable' and its one read.
C21_Witness ==
    /\ pc = "done"
    /\ call.name = "set_port_status"
    /\ call.status = Port_DISABLE
    /\ ret = RetBool(TRUE)
    /\ Cardinality(Batches) = 1
    /\ Cardinality(StateReads) = 1
    /\ \E i \in Batches : trace[i].cmds[2].k = "disable"

\* C22: against a switch that applies the batches it accepts and shows its
\* state to later reads, every set_port_status(port, enable) of a succession
\* returns true, the second as the first, and a get_port_status(port) after
\* one or more of them returns enable.
C22_SetPortStatusIdempotent ==
    /\ (pc = "done" /\ call.name = "set_port_status") => ret = RetBool(TRUE)
    /\ (pc = "done" /\ call.name = "get_port_status" /\ Batches # {})
         => ret = RetStatus(Port_ENABLE)

\* C22 witness: after two set_port_status(port, enable), which sent a batch
\* each and returned true each, get_port_status returned enable.
C22_Witness ==
    /\ pc = "done"
    /\ call.name = "get_port_status"
    /\ Cardinality(Batches) = 2
    /\ CallsMade = 3
    /\ ret = RetStatus(Port_ENABLE)

\* The caller's operation has sent a command and has more to send.
MidOperation == pc \in { "m_config", "m_write", "m_sleep", "m_verify" }

\* The caller's operation is in flight: inside the body of its block.
InFlight == pc \in { "m_read", "m_config", "m_write", "m_sleep", "m_verify" }

C24_Terminates ==
    /\ (pc # "idle") ~> (pc = "done")
    /\ []((pc = "done" /\ call.name \in Mutations /\ ~call.scoped)
            => ret \in { RetBool(TRUE), RetBool(FALSE) })

\* C24 witness: a mutation has gone through its batch, its settle wait and
\* its read-back and has ended with true.
C24_Witness ==
    /\ pc = "done"
    /\ call.name = "set_poe_status"
    /\ ~call.scoped
    /\ ret = RetBool(TRUE)
    /\ \E i \in 1..Len(trace) : trace[i].ev = "sleep"

\* The settle waits of the call.
Waits == { i \in 1..Len(trace) : trace[i].ev = "sleep" }

\* The verification reads of the call: the show command of the mutation,
\* sent after the batch.
VerifyReads ==
    { i \in Sends :
        /\ trace[i].cmds = << ReadCommand(call.name, call.port) >>
        /\ \E b \in Batches : b < i }

\* The persist commands of the call.
Persists == { i \in Sends : trace[i].cmds = << WriteMemory >> }

\* C27: within a mutation the batch is submitted before the settle wait,
\* the verification read is sent only after the settle wait, and a result
\* that no exception produced, as every result of true, comes after the
\* verification read.
C27_StepOrder ==
    call.name \in Mutations
    => /\ \A w \in Waits : \E b \in Batches : b < w
       /\ \A w \in Waits : \A b \in Batches : b < w
       /\ \A v \in VerifyReads : \E w \in Waits : w < v
       /\ (BodyEnded /\ (caught = "none" \/ BodyOutcome = RetBool(TRUE)))
            => \E v \in VerifyReads : \A i \in Sends : i <= v

\* C27 witness: change_port_vlan ended with true after its first read, its
\* batch, its persist command, its settle wait and its verification read.
C27_Witness ==
    /\ pc = "exit"
    /\ call.name = "change_port_vlan"
    /\ pend = RetBool(TRUE)
    /\ \E b \in Batches : \E w \in Waits : \E v \in VerifyReads : b < w /\ w < v

\* The commands sent after the settle wait.
SendsAfterWait == { i \in Sends : \E w \in Waits : w < i }

\* C28: a mutation sends one command after its settle wait, the
\* verification read, and no more than one; an exception ends its body;
\* and once its body has ended the call sends nothing more.
C28_OneVerificationNoRollback ==
    /\ [](call.name \in Mutations
           => /\ Cardinality(SendsAfterWait) <= 1
              /\ SendsAfterWait \subseteq VerifyReads
              /\ (BodyEnded /\ caught = "none") => Cardinality(SendsAfterWait) = 1
              /\ caught # "none" => (pc \in { "exit", "done" }))
    /\ [][(call.name \in Mutations /\ pc \in { "exit", "done" })
            => \A i \in 1..Len(trace') :
                 i > Len(trace) => trace'[i].ev \notin { "send_command", "send_config_set" }]_vars

\* C28 witness: the VLAN read back by change_port_vlan is not the one asked
\* for; the call ended with false, and the verification read is the last
\* command it sent.
C28_Witness ==
    /\ pc = "done"
    /\ call.name = "change_port_vlan"
    /\ caught = "none"
    /\ ret = RetBool(FALSE)
    /\ Cardinality(SendsAfterWait) = 1
    /\ new_vlan # call.vlan

\* C29: change_port_vlan and set_port_status send the persist command
\* once, after the batch and before the settle wait and the verification
\* read; set_poe_status never sends it.
C29_PersistAsymmetry ==
    /\ call.name = "set_poe_status" => Persists = {}
    /\ call.name \in { "change_port_vlan", "set_port_status" }
         => /\ Cardinality(Persists) <= 1
            /\ \A p \in Persists :
                 /\ \E b \in Batches : b < p
                 /\ \A w \in Waits : p < w
                 /\ \A v \in VerifyReads : p < v
            /\ Waits # {} => Cardinality(Persists) = 1

\* C29 witness: set_port_status has sent its batch and the persist command
\* and has waited.
C29_Witness ==
    /\ pc = "m_verify"
    /\ call.name = "set_port_status"
    /\ Cardinality(Persists) = 1
    /\ Waits # {}

\* The transport returned text t.
Answer(t) == [exc |-> "none", out |-> t, dies |-> FALSE]

\* C30: the result of a mutation does not depend on the text the batch or
\* the persist command returned: a step the call takes when one of them
\* returns is the step it takes for every other text the switch can
\* answer, and the result of a call that raised nothing is the comparison
\* of the value read back with the value asked for.
C30_AnswerTextIgnored ==
    /\ [][(pc = "m_config" /\ pc' \in { "m_write", "m_sleep" })
            => \A t \in ConfigOutputs : BatchReturned(Answer(t))]_vars
    /\ [][(pc = "m_write" /\ pc' = "m_sleep")
            => \A t \in DeviceOutputs(dev, WriteMemory) :
                 PersistReturned(Answer(t))]_vars
    /\ []((BodyEnded /\ call.name \in Mutations /\ caught = "none")
            => BodyOutcome = RetBool(ReadBackEqual))

\* C30 witness: set_port_status ended with true after a batch and a
\* persist command that the switch, which answers either with its usual
\* text or with "Invalid input", had answered.
C30_Witness ==
    /\ pc = "exit"
    /\ call.name = "set_port_status"
    /\ pend = RetBool(TRUE)
    /\ Batches # {}
    /\ Persists # {}
    /\ InvalidInput \in ConfigOutputs \cap DeviceOutputs(dev, WriteMemory)

\* The steps of a call that send a command.
CommandSteps == { "read", "m_read", "m_config", "m_write", "m_verify" }

\* C31: no command is sent over a session that is dead when it is sent;
\* when the session has died since the last command of the call, the next
\* command step sends nothing and changes nothing on the switch, a read
\* raises ConnectionError and a mutation ends with false.
C31_LivenessRechecked ==
    /\ [](\A i \in Sends : trace[i].alive)
    /\ [][(pc \in CommandSteps /\ conn \notin live /\ pc' # pc)
            => /\ trace' = trace
               /\ dev' = dev
               /\ pc' \in { "exit", "done" }
               /\ IF call.name \in Reads
                  THEN (IF call.scoped THEN pend' ELSE ret') = Raise("ConnectionError")
                  ELSE /\ (IF call.scoped THEN pend' ELSE ret') = RetBool(FALSE)
                       /\ caught' = "ConnectionError"]_vars

\* C31 witness: the session died after the batch of change_port_vlan went
\* through it; the persist command was not sent and the call ended with
\* false.
C31_Witness ==
    /\ pc = "done"
    /\ call.name = "change_port_vlan"
    /\ ~call.scoped
    /\ caught = "ConnectionError"
    /\ ret = RetBool(FALSE)
    /\ Batches # {}
    /\ Persists = {}
    /\ \A i \in Sends : trace[i].alive

\* C32: configure hands its lines to the transport in one send_config_set,
\* the same lines in the same order, and returns the text the transport
\* returned.
C32_ConfigurePassesThrough ==
    /\ []((pc = "done" /\ call.name = "configure" /\ ret.kind = "return")
            => /\ Len(trace) = 1
               /\ trace[1].ev = "send_config_set"
               /\ trace[1].cmds = call.cmds
               /\ ret \in { RetText(t) : t \in ConfigOutputs })
    /\ [][(pc = "configure" /\ pc' # pc /\ trace' # trace)
            => trace' = Append(trace, Ev("send_config_set", conn, call.cmds))]_vars

\* C32 witness: configure(["interface ethernet 1/1/1", "enable"]) sent the
\* two lines in that order and returned the "Invalid input" the switch
\* answered.
C32_Witness ==
    /\ pc = "done"
    /\ call.name = "configure"
    /\ ret = RetText(InvalidInput)
    /\ Len(trace) = 1
    /\ trace[1].cmds = << Cmd("interface ethernet", Absent, P111),
                          Cmd("enable", Absent, << >>) >>

\* C34: every command is sent over a session that has entered enable mode.
C34_OnlyPrivilegedSends == \A i \in Sends : trace[i].priv

\* C35: when connect() raises, at the open or at enable(), the controller
\* holds no live session afterwards.
C35_FailedConnectHoldsNoSession ==
    [][(pc \in { "connect", "enable" } /\ pc' = "done" /\ ret'.kind = "raise")
        => ~(conn' # NoConn /\ conn' \in live')]_vars

\* C36: no batch of change_port_vlan(port, v) removes the port from VLAN v.
C36_TargetVlanNotRemoved ==
    call.name = "change_port_vlan"
    => \A b \in Batches : \A k \in 1..(Len(trace[b].cmds) - 1) :
         ~(/\ trace[b].cmds[k] = Cmd("vlan", call.vlan, << >>)
           /\ trace[b].cmds[k + 1] = Cmd("no untagged ethernet", Absent, call.port))

\* --------------------------------------------------------- claims on tools
\* The tool turned its call down: ValueError, and no transport call made.
TurnedDown ==
    pc = "done" /\ ret = Raise("ValueError") /\ trace = << >>

\* C25: the set_port_status tool, called for a configured switch with 'up'
\* or 'down', does not raise ValueError for the status but goes on to apply
\* it.
C25_AcceptsUpAndDown ==
    (/\ tool.name = "set_port_status"
     /\ tool.switch_name \in Switches
     /\ tool.status \in { Up, Down })
    => ~TurnedDown

\* The arguments a tool has to turn down: a switch that is not configured,
\* or a status that is no value of the tool's enumeration.
BadArguments(t) ==
    \/ t.switch_name \notin Switches
    \/ t.name = "set_port_status" /\ Lower(t.status) \notin { En, Dis }
    \/ t.name = "set_poe_status"
         /\ Lower(t.status) \notin { En \o << "d" >>, Dis \o << "d" >> }

LineStart(text, i) == i = 1 \/ text[i - 1] = "\n"

\* The text has l as one of its lines.
HasLine(text, l) ==
    \E i \in 1..Len(text) :
      /\ LineStart(text, i)
      /\ Lit(text, i, l)
      /\ (i + Len(l) = Len(text) + 1 \/ text[i + Len(l)] = "\n")

\* The rows of exactly the port: the lines that start with its identifier
\* followed by whitespace.
ExactRows(text, port) ==
    { i \in 1..Len(text) :
        /\ LineStart(text, i)
        /\ Lit(text, i, port)
        /\ i + Len(port) <= Len(text)
        /\ text[i + Len(port)] \in Space }

\* The token that follows the port in its first row, in lower case.
RowToken(text, port) ==
    LET i == Min(ExactRows(text, port))
        k == RunEnd(text, i + Len(port), Space)
    IN  Lower(SubSeq(text, k, RunEnd(text, k, Word) - 1))

DisableMarker == << "d","i","s","a","b","l","e" >>

\* A read returned to the caller of the parsing specification.
ReadReturned(name) == pc = "done" /\ call.name = name /\ ret.kind = "return"

\* C13: get_port_status returns disabled if and only if the output has a row
\* of exactly the requested port whose status token is the disable marker,
\* and any other token in that row yields enabled.
C13_DisabledIffExactRow ==
    ReadReturned("get_port_status")
      => LET rows == ExactRows(output, call.port)
         IN  /\ ret.s = Port_DISABLE
                  <=> (rows # {} /\ RowToken(output, call.port) = DisableMarker)
             /\ (rows # {} /\ RowToken(output, call.port) # DisableMarker)
                  => ret.s = Port_ENABLE

C15_MemberOfVlan ==
    (ReadReturned("get_port_vlan") /\ output = MemberLine(call.port, 100))
      => ret = RetInt(100)

\* The output carries one of the two rejection markers.
HasMarker(text) == Contains(text, InvalidInput) \/ Contains(text, NoInformation)

\* C16: get_poe_status returns the absent value whenever the output carries
\* a rejection marker ("Invalid input", "No information available"),
\* whatever else it contains, a row of the port included.
C16_MarkerMeansAbsent ==
    (ReadReturned("get_poe_status")
     /\ (HasLine(output, InvalidInput) \/ HasLine(output, NoInformation)))
      => ret = RetStatus(None)

\* C16 witness: the output has the marker and, after it, the row of the port
\* with the state On, and get_poe_status returned the absent value.
C16_Witness ==
    /\ ReadReturned("get_poe_status")
    /\ output = NoInformation \o << "\n" >> \o PoeRow(call.port, "On")
    /\ ret = RetStatus(None)

\* C17: get_poe_status(port) returns enabled for an output that reports
\* "State: On" and has no row that starts with the port identifier.
C17_StateOn ==
    (ReadReturned("get_poe_status") /\ HasLine(output, StateOn)
     /\ ExactRows(output, call.port) = {} /\ ~HasMarker(output))
      => ret = RetStatus(PoE_ENABLED)

\* C18: set_poe_status(port, disabled) returns true whenever the read-back
\* output has the row of the port with the state Off, wherever that row
\* stands (outputs that carry a rejection marker are the case of C16).
C18_RowOffAnywhere ==
    (pc = "done" /\ call.name = "set_poe_status" /\ call.status = PoE_DISABLED
     /\ caught = "none" /\ ReadBackDone
     /\ HasLine(output, PoeRow(call.port, "Off"))
     /\ ~HasLine(output, PoeRow(call.port, "On"))
     /\ ~HasMarker(output))
      => ret = RetBool(TRUE)

\* -------------------------------------------------------- claims on ports
\* C33: get_port_vlan(port) returns the VLAN of the requested port when the
\* output carries the entries of more than one port.
C33_VlanOfRequestedPort ==
    (pc = "done" /\ call.name = "get_port_vlan" /\ ret.kind = "return")
      => \A n \in Vlans :
           Contains(output, PortEntry(call.port, n)) => ret = RetInt(n)

\* -------------------------------------------------------- claims on agent
\* The steps of process_ticket after its check of the tracker.
TicketSteps == { "create", "analyse", "reply", "process" }

\* C37: the decision agent is never run on a ticket already marked
\* processed: it is created and run only for a ticket the tracker does not
\* hold, every run is of the ticket in hand, and process_ticket on a marked
\* ticket returns true with no run, no reply, no mark and no use of a
\* switch, also for a test ticket the poll loop added again.
C37_ProcessedNeverRun ==
    /\ [](agent.pc \in { "create", "analyse", "process" }
            => agent.ticket.id \notin agent.processed)
    /\ [][(agent.pc = "check" /\ agent.ticket.id \in agent.processed
            /\ agent'.pc # "stopped")
             => /\ agent' = [agent EXCEPT !.success = "True", !.i = @ + 1,
                                            !.pc = "for"]
                /\ UNCHANGED controllerVars]_vars
    /\ [][agent'.runs # agent.runs
             => /\ agent.pc \in { "analyse", "process" }
                /\ agent.ticket.id \notin agent.processed
                /\ \A id \in TicketIds \ { agent.ticket.id } :
                     agent'.runs[id] = agent.runs[id]]_vars

\* A later poll took up the test ticket that the tracker held from the
\* start, and process_ticket returned true for it without a run or a reply.
C37_Witness ==
    /\ agent.pc = "for"
    /\ agent.polls >= 1
    /\ agent.ticket = Ticket1
    /\ IsTest(agent.ticket)
    /\ agent.success = "True"
    /\ agent.ticket.id \in agent.processed
    /\ agent.runs[agent.ticket.id] = 0
    /\ agent.replies[agent.ticket.id] = 0

\* C38: when process_ticket has returned, the ticket is in the processed
\* set exactly when the value returned is true.
C38_MarkedIffTrue ==
    (agent.pc = "for" /\ agent.success # "none")
      => (agent.success = "True" <=> agent.ticket.id \in agent.processed)

\* C39: a failure while one ticket is processed does not keep the remaining
\* tickets of the poll from being processed: the loop leaves the tickets of
\* a poll for its sleep only when none remains.
C39_RemainingTicketsProcessed ==
    [][(agent.pc \in { "check" } \cup TicketSteps /\ agent'.pc = "sleep")
         => agent.i >= Len(agent.unprocessed_tickets)]_vars

====
